---- MODULE Spec2Model ----
(***************************************************************************)
(* ManagedRedisCluster (src/src/IPC/ManagedRedisCluster.ts): a pool of     *)
(* Redis clients with pub/sub support.  The class is single threaded; each *)
(* action below is one synchronous turn of the event loop: a public call,  *)
(* the completion of an outstanding rawCallAsync, a client event, a sweep  *)
(* of evict(), or the clock advancing.  Client events are those of the     *)
(* clients the Map currently holds.  The options are those the             *)
(* documentation allows: 1 <= minPool <= maxPool.                          *)
(*                                                                         *)
(* Values keep their JavaScript type: poolUsed is a Set of values, and a   *)
(* value is a string, a client object or undefined.  Strict equality       *)
(* (===, Set.has) is false across types.                                   *)
(***************************************************************************)
EXTENDS Integers, Sequences, FiniteSets, Bags, TLC

\* ---- bounds of the model ----
MaxMinPool == 2      \* minPool is drawn from 1..MaxMinPool
MaxMaxPool == 2      \* maxPool is drawn from minPool..MaxMaxPool
MaxTime    == 2      \* Date.now() runs over 0..MaxTime
RandRange  == 2      \* Math.floor(Math.random() * 4096) scaled to 0..RandRange-1
MaxTopics  == 1      \* PSTopics never grows beyond this length
MaxPatterns == 2     \* the same bound for a host that only subscribes (PubSubSpec)

MaxCalls   == 2      \* promises of run()/unsubscribe() outstanding at once

TopicArgs == {<<"a">>, <<"b">>}   \* topic arguments a caller passes
TTLs   == {1}                \* ttl option, in clock units
Depths == {0, 1}             \* values of client.queue.length

VARIABLES
    minPool,     \* this.minPool
    maxPool,     \* this.maxPool
    poolTTL,     \* this.poolTTL
    pool,        \* this.pool: Map in insertion order, a sequence of clients
    poolUsed,    \* this.poolUsed: Set of JavaScript values
    poolUsedPS,  \* this.poolUsedPS: a client name, or '' (EmptyName)
    PSTopics,    \* this.PSTopics
    now,         \* Date.now()
    calls,       \* bag of the outstanding promises of run()/unsubscribe() calls
    turn,        \* what the last turn did to clients: how many it created, those it
                 \* closed with client.end(), how many times it called release(),
                 \* the designation it cleared with this.poolUsedPS = ''
    wired        \* names of the open clients that carry the listeners of create()

vars == <<minPool, maxPool, poolTTL, pool, poolUsed, poolUsedPS, PSTopics,
          now, calls, turn, wired>>

\* ---- JavaScript values ----
EmptyName == <<-1, 0>>                                  \* the string ''
Str(n)    == [type |-> "string", v |-> n]
Obj(n)    == [type |-> "object", v |-> n]
Undefined == [type |-> "undefined", v |-> EmptyName]

\* === / SameValueZero on the values above
StrictEq(x, y) == x.type = y.type /\ x.v = y.v

\* Set.prototype.has
SetHas(set, x) == \E e \in set : StrictEq(e, x)

Names(p) == {p[i].name : i \in 1..Len(p)}

IndexOf(p, n) == CHOOSE i \in 1..Len(p) : p[i].name = n

RemoveAt(p, i) == SubSeq(p, 1, i - 1) \o SubSeq(p, i + 1, Len(p))

\* Map.prototype.delete
MapDelete(p, n) == IF n \in Names(p) THEN RemoveAt(p, IndexOf(p, n)) ELSE p

\* client.id: a property the class never assigns (it assigns client.name)
ClientId(c) == Undefined

\* ---- create(options) ----
\* uniqueID = `${pid}-${Date.now()}-${random}`; Map.set on an existing key
\* replaces the value in place (the client it held is dropped, still open).
create(p, t, r) ==
    LET uniqueID == <<t, r>>
        client   == [name |-> uniqueID, lastUsedTime |-> t]
    IN  IF uniqueID \in Names(p)
        THEN [pool |-> [p EXCEPT ![IndexOf(p, uniqueID)] = client], id |-> uniqueID]
        ELSE [pool |-> Append(p, client), id |-> uniqueID]

\* for (let i = 0; i < n; i++) this.create(this.poolOptions)
RECURSIVE createLoop(_, _, _, _, _)
createLoop(p, t, rs, i, n) ==
    IF i > n THEN p
    ELSE createLoop(create(p, t, rs[i]).pool, t, rs, i + 1, n)

\* ---- acquire() ----
acquireFilter(x, used, ps) ==
    ~SetHas(used, Obj(x.name)) /\ ~StrictEq(Obj(x.name), Str(ps))

RECURSIVE FilterClients(_, _, _)
FilterClients(p, used, ps) ==
    IF p = <<>> THEN <<>>
    ELSE (IF acquireFilter(Head(p), used, ps) THEN <<Head(p)>> ELSE <<>>)
         \o FilterClients(Tail(p), used, ps)

\* stable insertion of x into a list sorted by queue length
RECURSIVE InsertByQueue(_, _)
InsertByQueue(x, s) ==
    IF s = <<>> THEN <<x>>
    ELSE IF x.queue - Head(s).queue < 0 THEN <<x>> \o s
    ELSE <<Head(s)>> \o InsertByQueue(x, Tail(s))

\* .sort((a, b) => a.queue.length - b.queue.length)
RECURSIVE SortByQueue(_)
SortByQueue(s) ==
    IF s = <<>> THEN <<>>
    ELSE InsertByQueue(s[Len(s)], SortByQueue(SubSeq(s, 1, Len(s) - 1)))

\* [...this.pool.values()] with each client's queue.length as read by this call
PoolValues(p, q) ==
    [i \in 1..Len(p) |-> [name |-> p[i].name, queue |-> q[i]]]

\* acquire() called without an id; q is the queue length the driver reports
\* for each pooled client, r the random part create() would draw
acquire(p, q, used, ps, mx, t, r) ==
    LET clientList == SortByQueue(FilterClients(PoolValues(p, q), used, ps))
    IN  IF Len(clientList) = 0
        THEN IF Len(p) < mx
             THEN LET c == create(p, t, r)
                  IN  [threw |-> FALSE, client |-> c.id, pool |-> c.pool,
                       poolUsed |-> used \cup {Str(c.id)}, created |-> 1]
             ELSE [threw |-> TRUE, client |-> EmptyName, pool |-> p, poolUsed |-> used,
                   created |-> 0]
        ELSE LET leastBusyClient == Head(clientList)
             IN  [threw |-> FALSE, client |-> leastBusyClient.name, pool |-> p,
                  poolUsed |-> used \cup {ClientId(leastBusyClient)}, created |-> 0]

\* release(client)
release(used, n) == used \ {Str(n)}

\* client.lastUsedTime = Date.now()
Touch(p, n, t) ==
    [i \in 1..Len(p) |-> IF p[i].name = n THEN [p[i] EXCEPT !.lastUsedTime = t] ELSE p[i]]

\* ---- evict() ----
\* the condition of evict() without its pool.size > minPool conjunct
evictConditionNoFloor(client, size, t, ttl, mn, ps) ==
    t - client.lastUsedTime >= ttl /\ client.name # ps

evictCondition(client, size, t, ttl, mn, ps) ==
    t - client.lastUsedTime >= ttl /\ size > mn /\ client.name # ps

\* the for-of loop over pool.values(), deleting while iterating
RECURSIVE evictLoop(_, _, _, _, _, _, _)
evictLoop(p, i, closed, t, ttl, mn, ps) ==
    IF i > Len(p) THEN [pool |-> p, closed |-> closed]
    ELSE IF evictCondition(p[i], Len(p), t, ttl, mn, ps)
         THEN evictLoop(RemoveAt(p, i), i, closed \cup {p[i].name}, t, ttl, mn, ps)
         ELSE evictLoop(p, i + 1, closed, t, ttl, mn, ps)

\* ---- listeners ----
\* client.on('connect' | 'ready' | 'disconnect' | 'reconnecting', ...) and
\* client.once('error', ...) of create(): every client put in the Map has them
Wire(w, p) == w \cup Names(p)

\* the error handler leaving the listeners of the client in place
keepAllListeners(w, n) == w

\* client.removeAllListeners()
removeAllListeners(w, n) == w \ {n}

\* this.emit(event, client.name) of the four handlers that only re-emit
onClientConnect(n)    == <<"connect", n>>
onClientReady(n)      == <<"ready", n>>
onClientDisconnect(n) == <<"disconnect", n>>
onClientReconnect(n, k) == <<"reconnecting", n, k>>

\* ---- promises ----
\* the promise of a run() or unsubscribe() call: the client its callback holds
\* (run's .then releases it; unsubscribe's callbacks hold none) and, for
\* unsubscribe, whether it took the branch that clears poolUsedPS
Call(k, c, cl) == [kind |-> k, client |-> c, clear |-> cl]

Outstanding == BagToSet(calls)

Turn(cr, cl, rel) ==
    [created |-> cr, closed |-> cl, released |-> rel, cleared |-> EmptyName]

Rands == 0..(RandRange - 1)

\* ---- the state after the constructor ----
\* the loop of lines 49-51 has run: minPool calls of create() within one
\* millisecond, each with its own random draw
Init ==
    /\ minPool \in 1..MaxMinPool
    /\ maxPool \in minPool..MaxMaxPool
    /\ poolTTL \in TTLs
    /\ now = 0
    /\ \E rs \in [1..minPool -> Rands] : pool = createLoop(<<>>, 0, rs, 1, minPool)
    /\ poolUsed = {}
    /\ poolUsedPS = EmptyName
    /\ PSTopics = <<>>
    /\ calls = EmptyBag
    /\ turn = Turn(minPool, {}, 0)
    /\ wired = Wire({}, pool)

\* ---- run(command) ----
Run(q, r) ==
    /\ BagCardinality(calls) < MaxCalls
    /\ LET a == acquire(pool, q, poolUsed, poolUsedPS, maxPool, now, r)
       IN  IF a.threw
           THEN /\ turn' = Turn(0, {}, 0)
                /\ UNCHANGED <<pool, poolUsed, calls, wired>>
           ELSE /\ pool' = Touch(a.pool, a.client, now)
                /\ poolUsed' = a.poolUsed
                /\ calls' = calls (+) SetToBag({Call("run", a.client, FALSE)})
                /\ turn' = Turn(a.created, {}, 0)
                /\ wired' = Wire(wired, a.pool)
    /\ UNCHANGED <<minPool, maxPool, poolTTL, poolUsedPS, PSTopics, now>>

\* rawCallAsync(...) of a run() resolves: .then(x => { this.release(client); ... })
RunResolve(c) ==
    /\ c \in Outstanding /\ c.kind = "run"
    /\ poolUsed' = release(poolUsed, c.client)
    /\ calls' = calls (-) SetToBag({c})
    /\ turn' = Turn(0, {}, 1)
    /\ UNCHANGED <<minPool, maxPool, poolTTL, pool, poolUsedPS, PSTopics, now, wired>>

\* rawCallAsync(...) of a run() rejects: run() attaches no rejection handler
RunReject(c) ==
    /\ c \in Outstanding /\ c.kind = "run"
    /\ calls' = calls (-) SetToBag({c})
    /\ turn' = Turn(0, {}, 0)
    /\ UNCHANGED <<minPool, maxPool, poolTTL, pool, poolUsed, poolUsedPS, PSTopics, now,
                   wired>>

\* ---- subscribe(topic) ----
Subscribe(topic, q, r) ==
    /\ LET a == acquire(pool, q, poolUsed, poolUsedPS, maxPool, now, r)
       IN  IF a.threw
           THEN /\ turn' = Turn(0, {}, 0)
                /\ UNCHANGED <<pool, poolUsed, poolUsedPS, PSTopics, wired>>
           ELSE /\ pool' = Touch(a.pool, a.client, now)
                /\ poolUsed' = a.poolUsed
                /\ poolUsedPS' = a.client
                /\ PSTopics' = PSTopics \o topic
                /\ turn' = Turn(a.created, {}, 0)
                /\ wired' = Wire(wired, a.pool)
    /\ UNCHANGED <<minPool, maxPool, poolTTL, now, calls>>

\* ---- unsubscribe(topic) ----
\* topic.includes(x)
Includes(topic, x) == \E i \in 1..Len(topic) : topic[i] = x

\* a filter that keeps every topic
TopicFilterKeepsAll(ts, topic) == ts

\* [...this.PSTopics].filter(x => !topic.includes(x))
TopicFilter(ts, topic) == SelectSeq(ts, LAMBDA x : ~Includes(topic, x))

Unsubscribe(topic, q, r) ==
    /\ BagCardinality(calls) < MaxCalls
    /\ LET a == acquire(pool, q, poolUsed, poolUsedPS, maxPool, now, r)
       IN  IF a.threw
           THEN /\ turn' = Turn(0, {}, 0)
                /\ UNCHANGED <<pool, poolUsed, PSTopics, calls, wired>>
           ELSE /\ pool' = Touch(a.pool, a.client, now)
                /\ poolUsed' = a.poolUsed
                /\ PSTopics' = TopicFilter(PSTopics, topic)
                /\ calls' = calls (+) SetToBag({Call("unsubscribe", EmptyName,
                                        Len(TopicFilter(PSTopics, topic)) < 1)})
                /\ turn' = Turn(a.created, {}, 0)
                /\ wired' = Wire(wired, a.pool)
    /\ UNCHANGED <<minPool, maxPool, poolTTL, poolUsedPS, now>>

\* PUNSUBSCRIBE resolves: .then(() => this.poolUsedPS = '') on the emptying branch
UnsubscribeResolve(c) ==
    /\ c \in Outstanding /\ c.kind = "unsubscribe"
    /\ poolUsedPS' = IF c.clear THEN EmptyName ELSE poolUsedPS
    /\ calls' = calls (-) SetToBag({c})
    /\ turn' = [Turn(0, {}, 0) EXCEPT !.cleared = IF c.clear THEN poolUsedPS ELSE EmptyName]
    /\ UNCHANGED <<minPool, maxPool, poolTTL, pool, poolUsed, PSTopics, now, wired>>

\* PUNSUBSCRIBE rejects: neither .then runs
UnsubscribeReject(c) ==
    /\ c \in Outstanding /\ c.kind = "unsubscribe"
    /\ calls' = calls (-) SetToBag({c})
    /\ turn' = Turn(0, {}, 0)
    /\ UNCHANGED <<minPool, maxPool, poolTTL, pool, poolUsed, poolUsedPS, PSTopics, now,
                   wired>>

\* ---- evict() ----
\* a sweep; the class itself never calls it, a host or a timer would.
\* A client closed with client.end() raises no further event
Evict ==
    /\ LET e == evictLoop(pool, 1, {}, now, poolTTL, minPool, poolUsedPS)
       IN  /\ pool' = e.pool
           /\ turn' = Turn(0, e.closed, 0)
           /\ wired' = wired \ e.closed
    /\ UNCHANGED <<minPool, maxPool, poolTTL, poolUsed, poolUsedPS, PSTopics, now, calls>>

\* ---- onClientError(client, error) ----
\* the loop that generates the pool back after this.pool.delete(client.name)
heal(p, mn, t, rs) ==
    IF Len(p) < mn THEN createLoop(p, t, rs, 1, mn) ELSE p

\* the 'error' event of the pooled client named n
OnClientError(n, rs) ==
    /\ n \in Names(pool)
    /\ pool' = heal(MapDelete(pool, n), minPool, now, rs)
    /\ turn' = Turn(IF Len(MapDelete(pool, n)) < minPool THEN minPool ELSE 0, {}, 0)
    /\ wired' = Wire(removeAllListeners(wired, n), pool')
    /\ UNCHANGED <<minPool, maxPool, poolTTL, poolUsed, poolUsedPS, PSTopics, now, calls>>

\* ---- onClientConnect, onClientReady, onClientDisconnect, onClientReconnect ----
\* this.emit(...e): the class hands e to its own listeners and touches no field
Reemit(e) ==
    /\ Len(e) >= 2
    /\ turn' = Turn(0, {}, 0)
    /\ UNCHANGED <<minPool, maxPool, poolTTL, pool, poolUsed, poolUsedPS, PSTopics, now,
                   calls, wired>>

\* an event of a client that carries the listeners: the handler re-emits it
OnClientConnect(n) == n \in wired /\ Reemit(onClientConnect(n))

OnClientReady(n) == n \in wired /\ Reemit(onClientReady(n))

OnClientDisconnect(n) == n \in wired /\ Reemit(onClientDisconnect(n))

OnClientReconnect(n, k) == n \in wired /\ Reemit(onClientReconnect(n, k))

\* ---- environment ----
\* the clock advances
Tick ==
    /\ now < MaxTime
    /\ now' = now + 1
    /\ turn' = Turn(0, {}, 0)
    /\ UNCHANGED <<minPool, maxPool, poolTTL, pool, poolUsed, poolUsedPS, PSTopics, calls,
                   wired>>

\* the queue lengths a call may read: every pooled client has an empty queue,
\* or exactly one has (a tie over the whole pool, and a strict minimum at each
\* position)
Reads ==
    {q \in [1..Len(pool) -> Depths] :
        \/ \A i \in 1..Len(pool) : q[i] = 0
        \/ Cardinality({i \in 1..Len(pool) : q[i] = 0}) = 1}

\* Math.random() is drawn only where create() runs
Draws(q) ==
    IF Len(FilterClients(PoolValues(pool, q), poolUsed, poolUsedPS)) = 0 THEN Rands ELSE {0}

HealDraws(n) ==
    IF Len(MapDelete(pool, n)) < minPool THEN [1..minPool -> Rands]
    ELSE {[i \in 1..minPool |-> 0]}

DoRun == \E q \in Reads : \E r \in Draws(q) : Run(q, r)
DoRunResolve == \E c \in Outstanding : RunResolve(c)
DoRunReject == \E c \in Outstanding : RunReject(c)
DoSubscribe ==
    \E topic \in TopicArgs :
        /\ Len(PSTopics) + Len(topic) <= MaxTopics
        /\ \E q \in Reads : \E r \in Draws(q) : Subscribe(topic, q, r)
DoUnsubscribe ==
    \E topic \in TopicArgs, q \in Reads : \E r \in Draws(q) : Unsubscribe(topic, q, r)
DoUnsubscribeResolve == \E c \in Outstanding : UnsubscribeResolve(c)
DoUnsubscribeReject == \E c \in Outstanding : UnsubscribeReject(c)
DoClientError == \E n \in Names(pool) : \E rs \in HealDraws(n) : OnClientError(n, rs)

\* the attempt number the driver passes to the 'reconnecting' listener
Attempts == {1}

DoClientConnect == \E n \in wired : OnClientConnect(n)
DoClientReady == \E n \in wired : OnClientReady(n)
DoClientDisconnect == \E n \in wired : OnClientDisconnect(n)
DoClientReconnect == \E n \in wired, k \in Attempts : OnClientReconnect(n, k)

Next ==
    \/ DoClientConnect
    \/ DoClientReady
    \/ DoClientDisconnect
    \/ DoClientReconnect
    \/ DoRun
    \/ DoRunResolve
    \/ DoRunReject
    \/ DoSubscribe
    \/ DoUnsubscribe
    \/ DoUnsubscribeResolve
    \/ DoUnsubscribeReject
    \/ Evict
    \/ DoClientError
    \/ Tick

Spec == Init /\ [][Next]_vars

\* replies arrive and the clock advances; nothing in the class schedules
\* evict() (no timer is ever installed), so no fairness is stated for it
Settle == DoRunResolve \/ DoRunReject \/ DoUnsubscribeResolve \/ DoUnsubscribeReject

LiveSpec == Spec /\ WF_vars(Tick) /\ WF_vars(Settle)

\* a host that uses the class for pub/sub only and subscribes to up to
\* MaxPatterns patterns at a time
DoSubscribeMore ==
    \E topic \in TopicArgs, q \in Reads : \E r \in Draws(q) :
        Len(PSTopics) + Len(topic) <= MaxPatterns /\ Subscribe(topic, q, r)

PubSubNext ==
    \/ DoSubscribeMore
    \/ DoUnsubscribe
    \/ DoUnsubscribeResolve
    \/ DoUnsubscribeReject
    \/ Tick

PubSubSpec == Init /\ [][PubSubNext]_vars

\* ---------------------------------------------------------------------
\* Properties
\* ---------------------------------------------------------------------

\* a client is checked out while a run() that acquired it has not settled
Held(n) == \E c \in Outstanding : c.kind = "run" /\ c.client = n

\* in use: its name is in poolUsed, or it is checked out
InUse(n) == SetHas(poolUsed, Str(n)) \/ Held(n)

AllBusy == \A n \in Names(pool) : InUse(n) \/ n = poolUsedPS

\* a turn that calls acquire()
Acquires == DoRun \/ DoSubscribe \/ DoUnsubscribe

Idle(client) == now - client.lastUsedTime >= poolTTL

AllIdle == \A i \in 1..Len(pool) : Idle(pool[i])

\* C1: in every reachable state minPool <= |Pool| <= maxPool.
PoolWithinBounds == minPool <= Len(pool) /\ Len(pool) <= maxPool

\* C2: a checked-out connection is never handed out again by acquire(): no two
\* outstanding run() calls hold the same connection.
PendingRunsHoldDistinctConnections ==
    \A c \in Outstanding : c.kind = "run" => CopiesIn(c, calls) = 1

\* C3: while a subscriber is designated, the connection a run() acquires is
\* never the designated subscriber.
RunAvoidsSubscriber ==
    [][DoRun /\ poolUsedPS # EmptyName =>
         \A c \in BagToSet(calls') :
            CopiesIn(c, calls') > CopiesIn(c, calls) => c.client # poolUsedPS]_vars

\* C4: when every pooled connection is in use or the designated subscriber and
\* |Pool| = maxPool, a call that acquires fails and leaves Pool, InUseSet,
\* TopicSet, the designation and the outstanding calls as they were.
ExhaustedAcquireFails ==
    [][Acquires /\ AllBusy /\ Len(pool) = maxPool =>
         UNCHANGED <<pool, poolUsed, PSTopics, poolUsedPS, calls>>]_vars

\* C5: when every pooled connection is in use or the designated subscriber and
\* |Pool| < maxPool, a call that acquires creates exactly one connection, which
\* is marked in use, and |Pool| grows by exactly one.
BusyAcquireGrowsPool ==
    [][Acquires /\ AllBusy /\ Len(pool) < maxPool =>
         /\ Len(pool') = Len(pool) + 1
         /\ turn'.created = 1
         /\ \A n \in Names(pool') \ Names(pool) : SetHas(poolUsed', Str(n))]_vars

\* C6: a run() that settles, resolved or rejected, has called release() exactly
\* once, and the connection it used is not in InUseSet afterwards.
RunReleasesOnSettle ==
    [][DoRunResolve \/ DoRunReject =>
         /\ turn'.released = 1
         /\ \A c \in Outstanding :
               CopiesIn(c, calls') < CopiesIn(c, calls) => ~SetHas(poolUsed', Str(c.client))]_vars

\* C7: a sweep of evict() never takes |Pool| below minPool and never closes or
\* removes the designated subscriber.
EvictKeepsMinAndSubscriber ==
    [][Evict =>
         /\ Len(pool') >= minPool \/ pool' = pool
         /\ poolUsedPS \notin turn'.closed
         /\ poolUsedPS \in Names(pool) => poolUsedPS \in Names(pool')]_vars

\* a sweep has closed a client, the pool is at minPool and still holds the
\* designated subscriber, which was idle past the ttl
EvictWitness ==
    /\ turn.closed # {}
    /\ Len(pool) = minPool
    /\ poolUsedPS \in Names(pool)
    /\ Idle(pool[IndexOf(pool, poolUsedPS)])

\* C8: a sweep of evict() never closes a connection that is in use.
EvictSparesInUse ==
    [][Evict => \A n \in turn'.closed : ~InUse(n)]_vars

\* C9: once |Pool| > minPool with every connection idle past the ttl, and no
\* further command is issued, |Pool| eventually is exactly minPool.
EvictionConverges ==
    (Len(pool) > minPool /\ AllIdle) ~> (Len(pool) = minPool \/ ~AllIdle)

\* C10: the reaction to a fatal error of a connection of a pool that holds at
\* least minPool connections creates exactly as many connections as the removal
\* left missing below minPool, so |Pool| = minPool, and creates none when the
\* removal left |Pool| >= minPool.
HealCreatesMissing ==
    [][DoClientError /\ Len(pool) >= minPool =>
         IF Len(pool) - 1 < minPool
         THEN turn'.created = minPool - (Len(pool) - 1) /\ Len(pool') = minPool
         ELSE turn'.created = 0 /\ Len(pool') = Len(pool) - 1]_vars

\* C11: in every reachable state every identifier in InUseSet and the
\* designated subscriber, if any, name a connection that is still in Pool (a
\* fatal error removes the connection from all three).
MarksReferToPool ==
    /\ \A e \in poolUsed : e.type = "string" => e.v \in Names(pool)
    /\ poolUsedPS # EmptyName => poolUsedPS \in Names(pool)

\* C12: in every reachable state TopicSet is non-empty if and only if a
\* subscriber is designated.
TopicsIffDesignation == (PSTopics # <<>>) <=> (poolUsedPS # EmptyName)

\* acquire() without an id can return the pooled client named n
Selectable(n, p, used, ps) ==
    \E q \in [1..Len(p) -> Depths] :
        LET a == acquire(p, q, used, ps, maxPool, now, 0)
        IN  ~a.threw /\ a.client = n

\* the turn settled a promise of unsubscribe() that clears the designation
ClearingSettled ==
    \E c \in Outstanding :
        c.kind = "unsubscribe" /\ c.clear /\ CopiesIn(c, calls') < CopiesIn(c, calls)

\* C13: with TopicSet = T, unsubscribe(T) empties TopicSet and its promise is
\* one that clears the designation; when that promise resolves with TopicSet
\* still empty, TopicSet stays empty, no subscriber is designated, and the
\* connection that was designated is not in InUseSet and can be returned by
\* acquire() again.
RoundTripRestoresConnection ==
    [][/\ \A topic \in TopicArgs :
            (/\ PSTopics = topic
             /\ calls' # calls
             /\ \E q \in Reads : \E r \in Draws(q) : Unsubscribe(topic, q, r))
            => /\ PSTopics' = <<>>
               /\ \E c \in BagToSet(calls') :
                     c.kind = "unsubscribe" /\ c.clear /\ CopiesIn(c, calls') > CopiesIn(c, calls)
       /\ (DoUnsubscribeResolve /\ ClearingSettled /\ PSTopics = <<>>)
            => /\ PSTopics' = <<>>
               /\ poolUsedPS' = EmptyName
               /\ poolUsedPS \in Names(pool) =>
                     /\ ~SetHas(poolUsed', Str(poolUsedPS))
                     /\ Selectable(poolUsedPS, pool', poolUsed', poolUsedPS')]_vars

\* the promise of an unsubscribe() that emptied TopicSet has just resolved: the
\* designation it cleared was a pooled connection, TopicSet is empty, no
\* subscriber is designated and that connection can be acquired again
RoundTripWitness ==
    /\ turn.cleared \in Names(pool)
    /\ PSTopics = <<>>
    /\ poolUsedPS = EmptyName
    /\ calls = EmptyBag
    /\ Selectable(turn.cleared, pool, poolUsed, poolUsedPS)

\* C14: a subscribe() made while TopicSet is non-empty and a pooled connection
\* is the designated subscriber leaves the designation on that connection.
SingleSubscriber ==
    [][DoSubscribeMore /\ PSTopics # <<>> /\ poolUsedPS \in Names(pool)
         => poolUsedPS' = poolUsedPS]_vars

\* C15: the state the constructor leaves holds exactly minPool connections, an
\* empty InUseSet, an empty TopicSet and no designated subscriber.
ConstructedState ==
    Init => /\ Len(pool) = minPool
            /\ poolUsed = {}
            /\ PSTopics = <<>>
            /\ poolUsedPS = EmptyName

\* C16: every create() adds an entry under a new identifier: a turn that
\* handles a fatal error in a pool of at least minPool connections leaves
\* |Pool| at what the removal left plus the number of create() calls it made.
CreateAddsOneEntry ==
    [][DoClientError /\ Len(pool) >= minPool
         => Len(pool') = Len(pool) - 1 + turn'.created]_vars

\* the promises of run() the turn added
NewRuns == {c \in BagToSet(calls') : c.kind = "run" /\ CopiesIn(c, calls') > CopiesIn(c, calls)}

\* the promises of run() the turn settled
SettledRuns == {c \in Outstanding : c.kind = "run" /\ CopiesIn(c, calls') < CopiesIn(c, calls)}

\* C17: after the acquire() of a run() returned a pooled connection, the
\* connection's own identifier is in InUseSet and nothing but identifiers of
\* Pool was added; the release() of a resolved run() removes exactly that
\* identifier and leaves Pool, TopicSet and the designation as they were.
AcquireMarksReleaseUnmarks ==
    [][/\ DoRun =>
            /\ \A c \in NewRuns : SetHas(poolUsed', Str(c.client))
            /\ \A e \in poolUsed' \ poolUsed : \E n \in Names(pool') : StrictEq(e, Str(n))
       /\ DoRunResolve =>
            /\ \A c \in SettledRuns : poolUsed' = poolUsed \ {Str(c.client)}
            /\ UNCHANGED <<pool, PSTopics, poolUsedPS>>]_vars

\* C18: the turn that settles an unsubscribe() has called release() once, and
\* when that promise was the only one outstanding and no subscriber remains
\* designated, InUseSet is empty afterwards.
UnsubscribeReleases ==
    [][DoUnsubscribeResolve \/ DoUnsubscribeReject =>
         /\ turn'.released = 1
         /\ (BagCardinality(calls) = 1 /\ poolUsedPS' = EmptyName) => poolUsed' = {}]_vars

\* the candidates of an acquire() that reads the queue lengths q: the pooled
\* connections, in insertion order, that are neither in use nor the designated
\* subscriber
Candidates(q) ==
    SelectSeq(PoolValues(pool, q), LAMBDA x : ~InUse(x.name) /\ x.name # poolUsedPS)

\* the first inserted among the candidates of minimum depth
LeastBusyCandidate(q) ==
    LET cs == Candidates(q)
        i  == CHOOSE k \in 1..Len(cs) :
                  /\ \A j \in 1..Len(cs) : cs[k].queue <= cs[j].queue
                  /\ \A j \in 1..(k - 1) : cs[j].queue > cs[k].queue
    IN  cs[i].name

\* C19: when the acquire() of a run() has at least one candidate, the
\* connection it returns is the candidate of minimum pending-command depth
\* that was inserted into Pool first.
LeastBusyFirstInserted ==
    [][\A q \in Reads :
          (Candidates(q) # <<>> /\ \E r \in Draws(q) : Run(q, r))
             => \A c \in NewRuns : c.client = LeastBusyCandidate(q)]_vars

\* a turn that handles a connect, ready, disconnect or reconnecting event
Lifecycle == DoClientConnect \/ DoClientReady \/ DoClientDisconnect \/ DoClientReconnect

\* C20: the handlers of connect, ready, disconnect and reconnecting re-emit the
\* event tagged with the connection's identifier and leave Pool, InUseSet,
\* TopicSet and the designation unchanged; the connection of a handled fatal
\* error carries no listener afterwards, so only pooled connections are ever
\* re-emitted.
LifecycleOnlyReemits ==
    /\ [](wired \subseteq Names(pool))
    /\ [](\A n \in wired :
             /\ onClientConnect(n) = <<"connect", n>>
             /\ onClientReady(n) = <<"ready", n>>
             /\ onClientDisconnect(n) = <<"disconnect", n>>
             /\ \A k \in Attempts : onClientReconnect(n, k) = <<"reconnecting", n, k>>)
    /\ [][/\ Lifecycle => UNCHANGED <<pool, poolUsed, PSTopics, poolUsedPS, calls, wired>>
          /\ \A n \in Names(pool) \ Names(pool') : n \notin wired']_vars

\* a fatal error has just been handled after the millisecond of construction:
\* the handler created clients, the pool is above minPool, and the clients
\* that carry listeners are those of the pool
LifecycleWitness ==
    /\ turn.created > 0
    /\ now > 0
    /\ Len(pool) > minPool
    /\ wired = Names(pool)

====
